---- MODULE Spec2Model ----
(***************************************************************************)
(* Model of the fault-diagnosis pipeline of maintenance-Ai-Agent:          *)
(*   - faultsRouter.analyze (quota gate, synthesis, persistence, query     *)
(*     log, quota settle) run by concurrent requests of one caller;        *)
(*   - searchAllSources / searchSource / scrapeUrl / checkRobotsTxt;       *)
(*   - the relevance score computed inside scrapeUrl;                      *)
(*   - the ranking and top-20 cut at the end of searchAllSources.          *)
(* Each part has its own specification over the shared variables; the      *)
(* variables of the other parts stay parked.                               *)
(***************************************************************************)
EXTENDS Integers, Sequences, FiniteSets, TLC

\* ------------------------------------------------------------------ bounds
MaxReqs == 2        \* concurrent faults.analyze requests of the caller
MaxBalance == 2     \* largest initial queriesRemaining
MaxSources == 3     \* rows of the searchSources table
MaxQueryLen == 4    \* characters of a search query (relevance score)
MaxContentLen == 3  \* characters of a page content (relevance score)
MaxGathered == 22   \* results gathered before the ranking
MaxRuns == 3        \* runs of equal scores in a gathered list
MaxLines == 11      \* lines of a text handed to extractMaintenanceInfo
MaxLineRuns == 2    \* runs of lines of one kind in such a text
MaxParts == 2       \* parts of a partsRequired list
MaxNameLen == 2     \* characters of a part name
MaxSimilar == 2     \* records returned by the retriever to one analysis
MaxRows == 6        \* rows of the faults table searched by findSimilarFaults
MaxRowRuns == 2     \* runs of equal rows in that table
MaxDocs == 3        \* rows of the documents table
MaxRequested == 2   \* ids in request.uploadedDocumentIds
MaxWords == 4       \* words of a scraped page
MaxCalls == 3       \* concurrent faults.get / faults.rateFault calls on a row
MaxNotifications == 3 \* rows of the notifications table
MaxGrants == 1      \* quota grants committed in a run

\* part_008:348  results.slice(0, 20)
TopN == 20

\* part_008:124-126  the caps of the enhanced extractor: slice(0, 10),
\* slice(0, 15), slice(0, 5)
\* part_007:408  limit: number = 5
DefaultLimit == 5

\* part_007:458  extractedText?.substring(0, 2000)
PerDocumentCap == 2000
\* part_007:741  extractedText?.substring(0, 5000) (enhanced analyzeFault)
EnhancedCap == 5000

\* part_001:107  queriesRemaining: 10 (getUserSubscription, free tier)
FreeTierQueries == 10

\* part_002:280  thirtyDaysAgo = Date.now() - 30 * 24 * 60 * 60 * 1000
RetentionDays == 30

PartsCap == 10
ProceduresCap == 15
WarningsCap == 5

Reqs == 1..MaxReqs

\* ------------------------------------------------------------------ state
VARIABLES
    \* users row of the caller (ctx.user.id)
    hasRow,             \* the users table holds a row for the caller
    queriesRemaining,   \* users.queriesRemaining
    totalQueriesUsed,   \* users.totalQueriesUsed
    initialBalance,     \* queriesRemaining before any request ran
    \* fault knowledge base and audit log
    faults,             \* faults table: sequence of rows, id = position
    queryHistory,       \* queryHistory table: sequence of rows
    \* one faults.analyze request per element of Reqs
    pc,                 \* position of the request in the handler
    user,               \* the request's copy of the users row (user[0])
    saveToKnowledgeBase,\* input.saveToKnowledgeBase
    faultId,            \* the handler's local faultId (0 = null)
    err,                \* kind of the error the request ended with
    llmCalls,           \* calls of the request to the generative service
    userWrites,         \* UPDATEs of the users row issued by the request
    \* searchSources table and one searchAllSources run
    isActive,           \* searchSources.isActive, per source id
    lastScraped,        \* searchSources.lastScraped, per source id
    searchQuery,        \* the query of the run
    sPc,                \* position of the run
    sources,            \* the rows selected by the run (ids, in table order)
    idx,                \* position in sources of the source being searched
    results,            \* the run's results array
    sourcesSearched,    \* the run's sourcesSearched array
    robots,             \* outcome of the robots.txt request of the current source
    pageFetched,        \* a page request was issued for the current source
    outcome,            \* per source id: how its search ended in this run
    delayed,            \* the politeness delay elapsed after the previous source
    \* relevance score of one page content against one query
    content,            \* the cleaned page content
    query,              \* the search query
    relevanceScore,     \* the computed score
    scPc,               \* "input" before the score is computed, "scored" after
    \* ranking of a gathered result list
    gathered,           \* results before the sort
    returned,           \* SearchResult.results
    rPc,                \* "gathering" before the ranking, "returned" after
    \* one call of extractMaintenanceInfo
    textLines,          \* the lines of the text content handed to the extractor
    info,               \* the returned {parts, procedures, warnings}
    xPc,                \* "input" before the call, "extracted" after
    \* one fault row written by saveFaultAnalysis and read by faults.get
    partsRequired,      \* analysis.partsRequired, the list handed to the save
    partsColumn,        \* faults.partsRequired of the row (text, nullable)
    partsRead,          \* partsRequired as returned by faults.get
    pPc,                \* "input", "stored" after the save, "read" after the get
    \* one run of analyzeFault and of the save that follows it
    similarFaults,      \* the records findSimilarFaults returned to the run
    llmPayload,         \* the parsed message content of the generative service
    saveRequested,      \* input.saveToKnowledgeBase of the request
    analysis,           \* the FaultAnalysisResponse returned by analyzeFault
    faultRow,           \* the faults row written by saveFaultAnalysis
    yPc,                \* "parsed", "returned", "saved", "kept", "failed"
    \* one call of findSimilarFaults
    faultRows,          \* the faults table: rows with faultDescription and views
    faultDescription,   \* request.faultDescription
    retrieved,          \* the selected rows, in the order returned
    tPc,                \* "table" while rows are added, "returned", "empty"
    \* the document context of one analysis
    documents,          \* the documents table: rows with id, userId, textLen
    uploadedDocumentIds,\* request.uploadedDocumentIds
    userId,             \* the caller
    documentContext,    \* the assembled context: one entry per document
    cPc,                \* "request", then "context", "enhanced" or "failed"
    \* one search.searchSources request over one scraped source
    scraped,            \* the words of the content scraped from the source
    reply,              \* maintenanceInfo of the result in the reply
    dPc,                 \* "scraping" while words are added, then "returned"
    \* popularity counters of one faults row and the calls on it
    views,              \* faults.views of the record
    helpful,            \* faults.helpful of the record
    notHelpful,         \* faults.notHelpful of the record
    kPc,                \* position of each faults.get or faults.rateFault call
    callKind,           \* per call: "get", "helpful" or "notHelpful"
    fault,               \* per call: the row as the call read it (faultResult[0])
    \* one run of cleanupOldNotifications
    notifications,      \* the notifications table: rows with id, isRead, age in days
    removed,            \* the rows the DELETE removed
    affectedRows,       \* the number cleanupOldNotifications returned
    nPc,                 \* "table", then "cleaned" or "threw"
    \* subscription of the caller, quota grants and status replies
    subscriptionTier,   \* users.subscriptionTier of the caller
    hasSubscription,    \* an unexpired subscriptions row of the caller exists
    granted,            \* quota written by the last grant (0 = none yet)
    grants,             \* number of grants committed
    status              \* the last reply of subscriptions.getStatus / hasQueriesRemaining

AnalyzeVars == <<hasRow, queriesRemaining, totalQueriesUsed, initialBalance,
                 faults, queryHistory, pc, user, saveToKnowledgeBase,
                 faultId, err, llmCalls, userWrites>>

SearchVars == <<isActive, lastScraped, searchQuery, sPc, sources, idx, results,
                sourcesSearched, robots, pageFetched, outcome, delayed>>
ScoreVars == <<content, query, relevanceScore, scPc>>
RankVars == <<gathered, returned, rPc>>
ExtractVars == <<textLines, info, xPc>>
PartsVars == <<partsRequired, partsColumn, partsRead, pPc>>
SynthVars == <<similarFaults, llmPayload, saveRequested, analysis, faultRow, yPc>>
RetrieveVars == <<faultRows, faultDescription, retrieved, tPc>>
ContextVars == <<documents, uploadedDocumentIds, userId, documentContext, cPc>>
DiscoverVars == <<scraped, reply, dPc>>

CountersVars == <<views, helpful, notHelpful, kPc, callKind, fault>>

CleanupVars == <<notifications, removed, affectedRows, nPc>>

SubscriptionVars == <<subscriptionTier, hasSubscription, granted, grants, status>>

\* the state of the parts added after the ranking
LaterVars == <<ExtractVars, PartsVars, SynthVars, RetrieveVars, ContextVars, DiscoverVars, CountersVars, CleanupVars, SubscriptionVars>>

vars == <<AnalyzeVars, SearchVars, ScoreVars, RankVars, LaterVars>>

NotAnalyze == <<SearchVars, ScoreVars, RankVars, LaterVars>>
NotSearch == <<AnalyzeVars, ScoreVars, RankVars, LaterVars>>
NotScore == <<AnalyzeVars, SearchVars, RankVars, LaterVars>>
NotRank == <<AnalyzeVars, SearchVars, ScoreVars, LaterVars>>
EarlierVars == <<AnalyzeVars, SearchVars, ScoreVars, RankVars>>
NotExtract == <<EarlierVars, PartsVars, SynthVars, RetrieveVars, ContextVars, DiscoverVars, CountersVars, CleanupVars, SubscriptionVars>>
NotParts == <<EarlierVars, ExtractVars, SynthVars, RetrieveVars, ContextVars, DiscoverVars, CountersVars, CleanupVars, SubscriptionVars>>
NotSynth == <<EarlierVars, ExtractVars, PartsVars, RetrieveVars, ContextVars, DiscoverVars, CountersVars, CleanupVars, SubscriptionVars>>
NotRetrieve == <<EarlierVars, ExtractVars, PartsVars, SynthVars, ContextVars, DiscoverVars, CountersVars, CleanupVars, SubscriptionVars>>
NotContext == <<EarlierVars, ExtractVars, PartsVars, SynthVars, RetrieveVars, DiscoverVars, CountersVars, CleanupVars, SubscriptionVars>>
NotDiscover == <<EarlierVars, ExtractVars, PartsVars, SynthVars, RetrieveVars, ContextVars, CountersVars, CleanupVars, SubscriptionVars>>
NotCounters == <<EarlierVars, ExtractVars, PartsVars, SynthVars, RetrieveVars, ContextVars, DiscoverVars, CleanupVars, SubscriptionVars>>
NotCleanup == <<EarlierVars, ExtractVars, PartsVars, SynthVars, RetrieveVars, ContextVars, DiscoverVars, CountersVars, SubscriptionVars>>
NotSubscription == <<EarlierVars, ExtractVars, PartsVars, SynthVars, RetrieveVars, ContextVars, DiscoverVars, CountersVars, CleanupVars>>

\* value of relevanceScore before the score is computed
NoScore == [num |-> 0, den |-> 1]

\* ids of the rows of the searchSources table
SourceIds == DOMAIN isActive

NoUser == [found |-> FALSE, queriesRemaining |-> 0, totalQueriesUsed |-> 0]

Max(a, b) == IF a >= b THEN a ELSE b
Min(a, b) == IF a <= b THEN a ELSE b

\* ------------------------------------------------------ faults.analyze
\* part_007:37-43  SELECT ... FROM users WHERE id = ctx.user.id LIMIT 1
SelectUser ==
    IF hasRow
    THEN [found |-> TRUE, queriesRemaining |-> queriesRemaining,
          totalQueriesUsed |-> totalQueriesUsed]
    ELSE NoUser

\* mutants of Admits: no check at all; "< 0" written for "<= 0"
AdmitsAlways(u) == TRUE
AdmitsZero(u) == ~(~u.found \/ u.queriesRemaining < 0)

\* part_007:45  the request passes unless (!user.length || queriesRemaining <= 0)
Admits(u) == ~(~u.found \/ u.queriesRemaining <= 0)

\* part_007:32-33  getDb() yields no connection: thrown before the try block
NoDb(r) ==
    /\ pc[r] = "start"
    /\ pc' = [pc EXCEPT ![r] = "failed"]
    /\ err' = [err EXCEPT ![r] = "nodb"]
    /\ UNCHANGED <<NotAnalyze, hasRow, queriesRemaining, totalQueriesUsed, initialBalance,
                   faults, queryHistory, user, saveToKnowledgeBase, faultId,
                   llmCalls, userWrites>>

\* part_007:36-49  read the caller's row and check the quota
Gate(r) ==
    /\ pc[r] = "start"
    /\ \E save \in BOOLEAN :
         saveToKnowledgeBase' = [saveToKnowledgeBase EXCEPT ![r] = save]
    /\ user' = [user EXCEPT ![r] = SelectUser]
    /\ IF Admits(SelectUser)
       THEN /\ pc' = [pc EXCEPT ![r] = "admitted"]
            /\ err' = err
       ELSE /\ pc' = [pc EXCEPT ![r] = "failed"]
            /\ err' = [err EXCEPT ![r] = "quota"]
    /\ UNCHANGED <<NotAnalyze, hasRow, queriesRemaining, totalQueriesUsed, initialBalance,
                   faults, queryHistory, faultId, llmCalls, userWrites>>

\* part_007:63, 524-565  analyzeFault issues the request to the generative service
CallLLM(r) ==
    /\ pc[r] = "admitted"
    /\ pc' = [pc EXCEPT ![r] = "llm"]
    /\ llmCalls' = [llmCalls EXCEPT ![r] = @ + 1]
    /\ UNCHANGED <<NotAnalyze, hasRow, queriesRemaining, totalQueriesUsed, initialBalance,
                   faults, queryHistory, user, saveToKnowledgeBase, faultId,
                   err, userWrites>>

\* part_007:567-591  the service answered with a parseable message
LLMOk(r) ==
    /\ pc[r] = "llm"
    /\ pc' = [pc EXCEPT ![r] = "analyzed"]
    /\ UNCHANGED <<NotAnalyze, hasRow, queriesRemaining, totalQueriesUsed, initialBalance,
                   faults, queryHistory, user, saveToKnowledgeBase, faultId,
                   err, llmCalls, userWrites>>

\* mutant of LLMFail: the failed request is logged to the query history
LLMFailLogged(r) ==
    /\ pc[r] = "llm"
    /\ pc' = [pc EXCEPT ![r] = "failed"]
    /\ err' = [err EXCEPT ![r] = "synthesis"]
    /\ queryHistory' = Append(queryHistory,
                              [id |-> Len(queryHistory) + 1, req |-> r,
                               searchPerformed |-> FALSE, queryCost |-> 1])
    /\ UNCHANGED <<NotAnalyze, hasRow, queriesRemaining, totalQueriesUsed, initialBalance,
                   faults, user, saveToKnowledgeBase, faultId,
                   llmCalls, userWrites>>

\* part_007:569-571, 592-597 and 99-104  the call threw, or no/unparseable content
LLMFail(r) ==
    /\ pc[r] = "llm"
    /\ pc' = [pc EXCEPT ![r] = "failed"]
    /\ err' = [err EXCEPT ![r] = "synthesis"]
    /\ UNCHANGED <<NotAnalyze, hasRow, queriesRemaining, totalQueriesUsed, initialBalance,
                   faults, queryHistory, user, saveToKnowledgeBase, faultId,
                   llmCalls, userWrites>>

\* mutant of saveFaultAnalysis: an existing row is updated in place
saveFaultAnalysisMerged(r) ==
    /\ pc[r] = "analyzed"
    /\ saveToKnowledgeBase[r]
    /\ faults' = IF faults = <<>>
                 THEN <<[id |-> 1, req |-> r]>>
                 ELSE [faults EXCEPT ![Len(faults)] = [id |-> Len(faults), req |-> r]]
    /\ faultId' = [faultId EXCEPT ![r] = Max(1, Len(faults))]
    /\ pc' = [pc EXCEPT ![r] = "saved"]
    /\ UNCHANGED <<NotAnalyze, hasRow, queriesRemaining, totalQueriesUsed, initialBalance,
                   queryHistory, user, saveToKnowledgeBase, err, llmCalls,
                   userWrites>>

\* part_007:603-629  INSERT INTO faults; the new row's id is returned
saveFaultAnalysis(r) ==
    /\ pc[r] = "analyzed"
    /\ saveToKnowledgeBase[r]
    /\ faults' = Append(faults, [id |-> Len(faults) + 1, req |-> r])
    /\ faultId' = [faultId EXCEPT ![r] = Len(faults) + 1]
    /\ pc' = [pc EXCEPT ![r] = "saved"]
    /\ UNCHANGED <<NotAnalyze, hasRow, queriesRemaining, totalQueriesUsed, initialBalance,
                   queryHistory, user, saveToKnowledgeBase, err, llmCalls,
                   userWrites>>

\* part_007:630-633  the INSERT threw: "Failed to save fault analysis"
saveFaultAnalysisFail(r) ==
    /\ pc[r] = "analyzed"
    /\ saveToKnowledgeBase[r]
    /\ pc' = [pc EXCEPT ![r] = "failed"]
    /\ err' = [err EXCEPT ![r] = "persistence"]
    /\ UNCHANGED <<NotAnalyze, hasRow, queriesRemaining, totalQueriesUsed, initialBalance,
                   faults, queryHistory, user, saveToKnowledgeBase, faultId,
                   llmCalls, userWrites>>

\* part_007:66-67  saveToKnowledgeBase is false: faultId stays null
SkipSave(r) ==
    /\ pc[r] = "analyzed"
    /\ ~saveToKnowledgeBase[r]
    /\ pc' = [pc EXCEPT ![r] = "saved"]
    /\ UNCHANGED <<NotAnalyze, hasRow, queriesRemaining, totalQueriesUsed, initialBalance,
                   faults, queryHistory, user, saveToKnowledgeBase, faultId,
                   err, llmCalls, userWrites>>

\* part_007:76-81, 639-660  INSERT INTO queryHistory, searchPerformed = false
logQuery(r) ==
    /\ pc[r] = "saved"
    /\ queryHistory' = Append(queryHistory,
                              [id |-> Len(queryHistory) + 1, req |-> r,
                               searchPerformed |-> FALSE, queryCost |-> 1])
    /\ pc' = [pc EXCEPT ![r] = "logged"]
    /\ UNCHANGED <<NotAnalyze, hasRow, queriesRemaining, totalQueriesUsed, initialBalance,
                   faults, user, saveToKnowledgeBase, faultId, err, llmCalls,
                   userWrites>>

\* part_007:645-646, 661-663  no connection or the INSERT threw: swallowed
logQueryFail(r) ==
    /\ pc[r] = "saved"
    /\ pc' = [pc EXCEPT ![r] = "logged"]
    /\ UNCHANGED <<NotAnalyze, hasRow, queriesRemaining, totalQueriesUsed, initialBalance,
                   faults, queryHistory, user, saveToKnowledgeBase, faultId,
                   err, llmCalls, userWrites>>

\* part_007:88  queriesRemaining: Math.max(0, user[0].queriesRemaining - 1)
Settled(u) == Max(0, u.queriesRemaining - 1)

\* part_007:83-98  UPDATE users SET queriesRemaining, totalQueriesUsed, then return
Settle(r) ==
    /\ pc[r] = "logged"
    /\ queriesRemaining' = Settled(user[r])
    /\ totalQueriesUsed' = user[r].totalQueriesUsed + 1
    /\ userWrites' = [userWrites EXCEPT ![r] = @ + 1]
    /\ pc' = [pc EXCEPT ![r] = "done"]
    /\ UNCHANGED <<NotAnalyze, hasRow, initialBalance, faults, queryHistory, user,
                   saveToKnowledgeBase, faultId, err, llmCalls>>

\* part_007:85-91, 99-104  the UPDATE threw: the request ends with an error
SettleFail(r) ==
    /\ pc[r] = "logged"
    /\ pc' = [pc EXCEPT ![r] = "failed"]
    /\ err' = [err EXCEPT ![r] = "db"]
    /\ UNCHANGED <<NotAnalyze, hasRow, queriesRemaining, totalQueriesUsed, initialBalance,
                   faults, queryHistory, user, saveToKnowledgeBase, faultId,
                   llmCalls, userWrites>>

\* ------------------------------------------------------ relevance score
\* Strings are sequences of one-character strings.
Lower(c) == CASE c = "A" -> "a" [] c = "B" -> "b" [] OTHER -> c

\* String.prototype.toLowerCase
toLowerCase(s) == [i \in 1..Len(s) |-> Lower(s[i])]

\* position of the first sep in s at or after i, 0 if none
RECURSIVE IndexFrom(_, _, _)
IndexFrom(s, sep, i) ==
    IF i > Len(s) THEN 0
    ELSE IF s[i] = sep THEN i ELSE IndexFrom(s, sep, i + 1)

\* String.prototype.split(sep) for a one-character sep: every separator cuts,
\* so "a  b" gives "a", "", "b" and "" gives the single piece ""
RECURSIVE split(_, _)
split(s, sep) ==
    LET i == IndexFrom(s, sep, 1)
    IN  IF i = 0 THEN <<s>>
        ELSE <<SubSeq(s, 1, i - 1)>> \o split(SubSeq(s, i + 1, Len(s)), sep)

\* String.prototype.includes: word occurs in text as a substring
includes(text, word) ==
    \E i \in 0..(Len(text) - Len(word)) :
        SubSeq(text, i + 1, i + Len(word)) = word

\* part_008:249  const contentLower = content.toLowerCase()
contentLower(c) == toLowerCase(c)

\* part_008:248  const queryWords = searchQuery.toLowerCase().split(" ")
queryWords(q) == split(toLowerCase(q), " ")

\* part_008:250-252  queryWords.filter((word) => contentLower.includes(word)).length
matchCount(c, q) ==
    Cardinality({i \in 1..Len(queryWords(q)) :
                    includes(contentLower(c), queryWords(q)[i])})

\* part_008:253  Math.min(1, matchCount / queryWords.length), as a fraction
RelevanceScore(c, q) ==
    LET m == matchCount(c, q)
        n == Len(queryWords(q))
    IN  IF m >= n THEN [num |-> n, den |-> n] ELSE [num |-> m, den |-> n]

\* a.relevanceScore < b.relevanceScore, fractions compared by cross-multiplication
ScoreLess(a, b) == a.num * b.den < b.num * a.den

\* ------------------------------------------------------ ranking
\* the place of rs[i] after a stable descending sort: behind every entry that
\* scores higher and every earlier entry that scores the same
PlaceOf(rs, i) ==
    1 + Cardinality({j \in 1..Len(rs) :
            \/ ScoreLess(rs[i].relevanceScore, rs[j].relevanceScore)
            \/ /\ j < i
               /\ ~ScoreLess(rs[j].relevanceScore, rs[i].relevanceScore)})

\* part_008:344  results.sort((a, b) => b.relevanceScore - a.relevanceScore)
\* (Array.prototype.sort is stable)
SortByRelevance(rs) ==
    LET place == [i \in 1..Len(rs) |-> PlaceOf(rs, i)]
    IN  [k \in 1..Len(rs) |-> rs[CHOOSE i \in 1..Len(rs) : place[i] = k]]

\* Array.prototype.slice(0, n)
slice(rs, n) == SubSeq(rs, 1, Min(n, Len(rs)))

\* mutant of RankAndCap: the cut is taken before the sort
CapThenRank(rs) == SortByRelevance(slice(rs, TopN))
\* part_008:343-348  sort by relevance, keep the top 20
RankAndCap(rs) == slice(SortByRelevance(rs), TopN)

\* ------------------------------------------------------ searchAllSources
\* queries and cleaned page contents of the search runs
SearchQueries == {<<"a", " ", "b">>}
PageContents == {<<"a">>, <<"A", "b">>, <<"c">>}

\* a robots.txt answered with success: its rules disallow the source's URL
\* ("User-agent: *", "Disallow: /"), or they permit it
RobotsBodies == {"disallows", "permits"}

\* mutant of checkRobotsTxt: a failed check denies
checkRobotsTxtDeniesOnFailure(r) == r # "failed"
\* part_008:160-182  checkRobotsTxt returns true after a fetched robots.txt
\* (rules are only logged, 172-177) and true from its catch block (178-181)
checkRobotsTxt(r) ==
    CASE r = "failed" -> TRUE
      [] r = "disallows" -> TRUE
      [] OTHER -> TRUE

\* part_008:313-316  SELECT ... FROM searchSources WHERE isActive = true
ActiveSources == {i \in SourceIds : isActive[i]}

InOrder(S) ==
    [k \in 1..Cardinality(S) |->
        CHOOSE x \in S : Cardinality({y \in S : y < x}) = k - 1]

\* the selected rows, in table order
SelectSources == InOrder(ActiveSources)

\* part_008:306-319  connection and source list obtained; the loop starts
SearchStart ==
    /\ sPc = "start"
    /\ sources' = SelectSources
    /\ idx' = 1
    /\ results' = <<>>
    /\ sourcesSearched' = <<>>
    /\ sPc' = "next"
    /\ UNCHANGED <<NotSearch, isActive, lastScraped, searchQuery, robots,
                   pageFetched, outcome, delayed>>

\* part_008:306-309 and 352-355  no connection, or the SELECT threw: the run throws
SearchStartFail ==
    /\ sPc = "start"
    /\ sPc' = "threw"
    /\ UNCHANGED <<NotSearch, isActive, lastScraped, searchQuery, sources, idx,
                   results, sourcesSearched, robots, pageFetched, outcome,
                   delayed>>

\* part_008:322-325, 270-291, 191-193, 162-168  next source: searchSource calls
\* scrapeUrl, which calls checkRobotsTxt, which requests robots.txt
BeginSource ==
    /\ sPc = "next"
    /\ idx <= Len(sources)
    /\ robots' = "pending"
    /\ pageFetched' = FALSE
    /\ sPc' = "robots"
    /\ UNCHANGED <<NotSearch, isActive, lastScraped, searchQuery, sources, idx,
                   results, sourcesSearched, outcome, delayed>>

\* part_008:327-334  after searchSource returned rs for the current source:
\* results.push(...rs), sourcesSearched.push(name), the lastScraped UPDATE is issued
AfterSearchSource(rs, how) ==
    /\ results' = results \o rs
    /\ sourcesSearched' = Append(sourcesSearched, sources[idx])
    /\ outcome' = [outcome EXCEPT ![sources[idx]] = how]
    /\ sPc' = "update"

\* part_008:193-208  robots.txt request ended with r; when allowed the page is
\* requested (timeout 15 s, up to 2 retries), otherwise scrapeUrl returns null
RobotsDone(r) ==
    /\ sPc = "robots"
    /\ robots' = r
    /\ IF checkRobotsTxt(r)
       THEN /\ pageFetched' = TRUE
            /\ sPc' = "page"
            /\ UNCHANGED <<results, sourcesSearched, outcome>>
       ELSE /\ pageFetched' = FALSE
            /\ AfterSearchSource(<<>>, "denied")
    /\ UNCHANGED <<NotSearch, isActive, lastScraped, searchQuery, sources, idx,
                   delayed>>

\* part_008:165-171  robots.txt was fetched
RobotsFetched == \E b \in RobotsBodies : RobotsDone(b)

\* part_008:178-181  robots.txt missing, unreachable, timed out or error status
RobotsFailed == RobotsDone("failed")

\* part_008:210-260, 293  the page was fetched and parsed to the cleaned
\* content c: one scored result
PageOk(c) ==
    /\ sPc = "page"
    /\ AfterSearchSource(<<[src |-> sources[idx],
                           relevanceScore |-> RelevanceScore(c, searchQuery)]>>,
                         "ok")
    /\ UNCHANGED <<NotSearch, isActive, lastScraped, searchQuery, sources, idx,
                   robots, pageFetched, delayed>>

\* mutant of PageFail: the failure of the source ends the run
PageFailAborts(how) ==
    /\ sPc = "page"
    /\ sPc' = "threw"
    /\ UNCHANGED <<NotSearch, isActive, lastScraped, searchQuery, sources, idx,
                   results, sourcesSearched, robots, pageFetched, outcome,
                   delayed>>

\* part_008:261-264, 293  the page request timed out, answered non-2xx, or the
\* parse threw: scrapeUrl returns null and searchSource an empty list
PageFail(how) ==
    /\ sPc = "page"
    /\ AfterSearchSource(<<>>, how)
    /\ UNCHANGED <<NotSearch, isActive, lastScraped, searchQuery, sources, idx,
                   robots, pageFetched, delayed>>

PageTimeout == PageFail("timeout")
PageHttpError == PageFail("http")
PageParseError == PageFail("parse")

\* part_008:331-337  the UPDATE succeeded; the 1000 ms timer is started
UpdateLastScraped ==
    /\ sPc = "update"
    /\ lastScraped' = [lastScraped EXCEPT ![sources[idx]] = "now"]
    /\ sPc' = "delay"
    /\ UNCHANGED <<NotSearch, isActive, searchQuery, sources, idx, results,
                   sourcesSearched, robots, pageFetched, outcome, delayed>>

\* part_008:331-334, 338-340  the UPDATE threw: caught by the per-source catch,
\* which logs and lets the loop go on to the next source
UpdateLastScrapedFail ==
    /\ sPc = "update"
    /\ idx' = idx + 1
    /\ delayed' = FALSE
    /\ sPc' = "next"
    /\ UNCHANGED <<NotSearch, isActive, lastScraped, searchQuery, sources,
                   results, sourcesSearched, robots, pageFetched, outcome>>

\* part_008:337  the 1000 ms timer fired; the loop goes on to the next source
DelayElapsed ==
    /\ sPc = "delay"
    /\ idx' = idx + 1
    /\ delayed' = TRUE
    /\ sPc' = "next"
    /\ UNCHANGED <<NotSearch, isActive, lastScraped, searchQuery, sources,
                   results, sourcesSearched, robots, pageFetched, outcome>>

\* part_008:343-351  all sources done: sort, cut, return
SearchReturn ==
    /\ sPc = "next"
    /\ idx > Len(sources)
    /\ results' = RankAndCap(results)
    /\ sPc' = "returned"
    /\ UNCHANGED <<NotSearch, isActive, lastScraped, searchQuery, sources, idx,
                   sourcesSearched, robots, pageFetched, outcome, delayed>>

\* ------------------------------------------------------ extractMaintenanceInfo
\* characters matched by the class [A-Z0-9\-\.] (the model's capitals are A, B)
CodeChars == {"A", "B", "0", "1", "2", "3", "4", "5", "6", "7", "8", "9", "-", "."}

\* part_008:381  line.match(/[A-Z0-9\-\.]+/): the first, longest run of class
\* characters; <<>> stands for null (a match is never empty)
match(line) ==
    LET starts == {i \in 1..Len(line) : line[i] \in CodeChars}
    IN  IF starts = {} THEN <<>>
        ELSE LET i == CHOOSE x \in starts : \A y \in starts : x <= y
                 j == CHOOSE x \in i..Len(line) :
                        /\ \A k \in i..x : line[k] \in CodeChars
                        /\ x = Len(line) \/ line[x + 1] \notin CodeChars
             IN  SubSeq(line, i, j)

\* String.prototype.trim
trim(s) ==
    LET inked == {i \in 1..Len(s) : s[i] # " "}
    IN  IF inked = {} THEN <<>>
        ELSE SubSeq(s, CHOOSE x \in inked : \A y \in inked : x <= y,
                       CHOOSE x \in inked : \A y \in inked : x >= y)

\* part_008:376-380, 386-392, 397-402  the keyword families
PartWords == {<<"p", "a", "r", "t">>, <<"c", "o", "m", "p", "o", "n", "e", "n", "t">>, <<"m", "o", "d", "u", "l", "e">>}
ProcedureWords == {<<"s", "t", "e", "p">>,
                   <<"p", "r", "o", "c", "e", "d", "u", "r", "e">>,
                   <<"r", "e", "m", "o", "v", "e">>,
                   <<"i", "n", "s", "t", "a", "l", "l">>,
                   <<"r", "e", "p", "l", "a", "c", "e">>}
WarningWords == {<<"w", "a", "r", "n", "i", "n", "g">>,
                 <<"c", "a", "u", "t", "i", "o", "n">>,
                 <<"d", "a", "n", "g", "e", "r">>,
                 <<"h", "a", "z", "a", "r", "d">>}

includesAny(line, words) == \E w \in words : includes(toLowerCase(line), w)

\* the elements of seq at the positions in keep, in order
Pick(seq, keep) ==
    [k \in 1..Cardinality(keep) |->
        seq[CHOOSE i \in keep : Cardinality({j \in keep : j < i}) = k - 1]]

\* part_008:408  Array.from(new Set(list)): first occurrences, in order
Dedupe(list) ==
    Pick(list, {i \in 1..Len(list) : \A j \in 1..(i - 1) : list[j] # list[i]})

\* part_008:370-412  the extractor of web-scraper, applied to the text content
extractMaintenanceInfo(c) ==
    LET lines == split(c, "\n")
        partLines == {i \in 1..Len(lines) :
                        includesAny(lines[i], PartWords) /\ match(lines[i]) # <<>>}
        procLines == {i \in 1..Len(lines) : includesAny(lines[i], ProcedureWords)}
        warnLines == {i \in 1..Len(lines) : includesAny(lines[i], WarningWords)}
        trimmed == [i \in 1..Len(lines) |-> trim(lines[i])]
        matched == [i \in 1..Len(lines) |-> match(lines[i])]
    IN  [parts |-> Dedupe(Pick(matched, partLines)),
         procedures |-> Dedupe(Pick(trimmed, procLines)),
         warnings |-> Dedupe(Pick(trimmed, warnLines))]

\* ------------------------------------------------------ score and rank runs
\* part_008:247-253  the score of one content against one query
ComputeScore ==
    /\ scPc = "input"
    /\ relevanceScore' = RelevanceScore(content, query)
    /\ scPc' = "scored"
    /\ UNCHANGED <<NotScore, content, query>>

RunsOf(rs) == Cardinality({i \in 1..(Len(rs) - 1) :
                  rs[i].relevanceScore # rs[i + 1].relevanceScore}) + 1

\* part_008:327  results.push(...sourceResults): one more result is gathered
Gather ==
    /\ rPc = "gathering"
    /\ Len(gathered) < MaxGathered
    /\ \E n \in 0..1 :
         LET rs == Append(gathered, [src |-> Len(gathered) + 1,
                                     relevanceScore |-> [num |-> n, den |-> 2]])
         IN  /\ RunsOf(rs) <= MaxRuns
             /\ gathered' = rs
    /\ UNCHANGED <<NotRank, returned, rPc>>

\* part_008:343-348  the gathered results are ranked and cut
Rank ==
    /\ rPc = "gathering"
    /\ returned' = RankAndCap(gathered)
    /\ rPc' = "returned"
    /\ UNCHANGED <<NotRank, gathered>>

\* Array.prototype.join(sep)
RECURSIVE join(_, _)
join(list, sep) ==
    IF list = <<>> THEN <<>>
    ELSE IF Len(list) = 1 THEN list[1]
    ELSE list[1] \o sep \o join(Tail(list), sep)

Digits == <<"0", "1", "2", "3", "4", "5", "6", "7", "8", "9">>
TwoDigits(k) == <<Digits[(k \div 10) + 1], Digits[(k % 10) + 1]>>

\* the lines a text is made of: at position k a line naming the part Akk, a
\* line (with a leading blank) holding a hazard and a step numbered kk, or a
\* line that is the same wherever it stands and names the part A01
LineKinds == {"part", "step", "same"}
Line(kind, k) ==
    CASE kind = "part" -> <<"p", "a", "r", "t", " ", "A">> \o TwoDigits(k)
      [] kind = "step" -> <<" ", "d", "a", "n", "g", "e", "r", " ", "s", "t", "e", "p", " ">> \o TwoDigits(k)
      [] kind = "same" -> <<"c", "a", "u", "t", "i", "o", "n", ":", " ", "r", "e", "p", "l", "a", "c", "e", " ", "p", "a", "r", "t", " ", "A", "0", "1", " ">>

LineRuns(ls) ==
    LET kindAt(i) == CHOOSE kd \in LineKinds : Line(kd, i) = ls[i]
    IN  Cardinality({i \in 1..(Len(ls) - 1) : kindAt(i) # kindAt(i + 1)}) + 1

\* one more line of text
AddLine ==
    /\ xPc = "input"
    /\ Len(textLines) < MaxLines
    /\ \E kd \in LineKinds :
         LET ls == Append(textLines, Line(kd, Len(textLines) + 1))
         IN  /\ LineRuns(ls) <= MaxLineRuns
             /\ textLines' = ls
    /\ UNCHANGED <<NotExtract, info, xPc>>

\* search.ts:31, part_008:361-412  extractMaintenanceInfo(content)
Extract ==
    /\ xPc = "input"
    /\ info' = extractMaintenanceInfo(join(textLines, <<"\n">>))
    /\ xPc' = "extracted"
    /\ UNCHANGED <<NotExtract, textLines>>

\* ------------------------------------------------------ partsRequired at rest
\* a nullable text column
NullText == [isNull |-> TRUE, text |-> <<>>]
Text(s) == [isNull |-> FALSE, text |-> s]

\* part_007:624  partsRequired: analysis.partsRequired.join(", ")
JoinParts(list) == join(list, <<",", " ">>)

\* part_007:145  fault.partsRequired?.split(",") || []  (an array is truthy,
\* so the [] is returned for a null column only)
SplitParts(col) == IF col.isNull THEN <<>> ELSE split(col.text, ",")

\* part_007:612-627  saveFaultAnalysis inserts the row
StoreParts ==
    /\ pPc = "input"
    /\ partsColumn' = Text(JoinParts(partsRequired))
    /\ pPc' = "stored"
    /\ UNCHANGED <<NotParts, partsRequired, partsRead>>

\* part_007:117-152  faults.get reads the row back
GetParts ==
    /\ pPc = "stored"
    /\ partsRead' = SplitParts(partsColumn)
    /\ pPc' = "read"
    /\ UNCHANGED <<NotParts, partsRequired, partsColumn>>

\* ------------------------------------------------------ analyzeFault
\* schema.ts:88 and part_007:546  the values of difficulty
Difficulties == {"easy", "medium", "hard", "expert"}

\* part_007:580  similarity: 0.8
Similarity == "0.8"

\* a payload conforms to the requested schema (part_007:534-561): difficulty
\* is present and one of the four values, and there is no additional property
Conforms(p) == p.difficulty \in Difficulties /\ ~p.extra

\* mutant of RelatedOf: a relatedFaults property of the payload wins
RelatedFromPayload(similar, p) ==
    IF p.extra THEN p.relatedFaults
    ELSE [i \in 1..Len(similar) |->
            [id |-> similar[i].id, description |-> similar[i].description,
             similarity |-> Similarity]]

\* part_007:577-581  similarFaults.map(... similarity: 0.8)
RelatedOf(similar, p) ==
    [i \in 1..Len(similar) |->
        [id |-> similar[i].id, description |-> similar[i].description,
         similarity |-> Similarity]]

\* part_007:583-591  the returned object: the named properties of the payload,
\* taken as they are, and the related faults
AnalysisOf(similar, p) ==
    [returned |-> TRUE, difficulty |-> p.difficulty,
     relatedFaults |-> RelatedOf(similar, p)]

\* part_007:574-591  JSON.parse succeeded; analyzeFault returns
ReturnAnalysis ==
    /\ yPc = "parsed"
    /\ analysis' = AnalysisOf(similarFaults, llmPayload)
    /\ yPc' = "returned"
    /\ UNCHANGED <<NotSynth, similarFaults, llmPayload, saveRequested, faultRow>>

\* part_007:612-629, schema.ts:88  the INSERT; an undefined difficulty is left
\* out of the statement and the column takes its default
SaveRow ==
    /\ yPc = "returned"
    /\ saveRequested
    /\ analysis.difficulty \in Difficulties \cup {"undefined"}
    /\ faultRow' = [stored |-> TRUE,
                    difficulty |-> IF analysis.difficulty = "undefined"
                                   THEN "medium" ELSE analysis.difficulty]
    /\ yPc' = "saved"
    /\ UNCHANGED <<NotSynth, similarFaults, llmPayload, saveRequested, analysis>>

\* part_007:612-633, schema.ts:88  a value outside the enum: a server in strict
\* SQL mode rejects the INSERT and saveFaultAnalysis throws
SaveRowRejected ==
    /\ yPc = "returned"
    /\ saveRequested
    /\ analysis.difficulty \notin Difficulties \cup {"undefined"}
    /\ yPc' = "failed"
    /\ UNCHANGED <<NotSynth, similarFaults, llmPayload, saveRequested, analysis,
                   faultRow>>

\* part_007:612-629, schema.ts:88  a value outside the enum: a server not in
\* strict SQL mode stores the empty error value of the enum
SaveRowCoerced ==
    /\ yPc = "returned"
    /\ saveRequested
    /\ analysis.difficulty \notin Difficulties \cup {"undefined"}
    /\ faultRow' = [stored |-> TRUE, difficulty |-> ""]
    /\ yPc' = "saved"
    /\ UNCHANGED <<NotSynth, similarFaults, llmPayload, saveRequested, analysis>>

\* part_007:66-67  saveToKnowledgeBase is false: nothing is stored
KeepAnalysis ==
    /\ yPc = "returned"
    /\ ~saveRequested
    /\ yPc' = "kept"
    /\ UNCHANGED <<NotSynth, similarFaults, llmPayload, saveRequested, analysis,
                   faultRow>>

\* ------------------------------------------------------ findSimilarFaults
\* part_007:420  request.faultDescription.split(" ").slice(0, 3): the pieces
\* joined by % into the LIKE pattern
PatternWords(d) == slice(split(d, " "), 3)

\* text LIKE %w1%w2%...%: the words occur in text one after the other,
\* without overlap, starting at or after position from
RECURSIVE LikeFrom(_, _, _)
LikeFrom(text, words, from) ==
    IF words = <<>> THEN TRUE
    ELSE LET w == Head(words)
             hits == {i \in from..(Len(text) - Len(w) + 1) :
                        SubSeq(text, i, i + Len(w) - 1) = w}
         IN  IF hits = {} THEN FALSE
             ELSE LikeFrom(text, Tail(words),
                           (CHOOSE i \in hits : \A j \in hits : i <= j) + Len(w))

\* part_007:417-422  where like(faults.faultDescription, pattern)
Like(text, words) == LikeFrom(text, words, 1)

\* part_007:414-422  the rows selected by the where clause
MatchingRows(rows, d) ==
    {i \in 1..Len(rows) : Like(rows[i].faultDescription, PatternWords(d))}

\* part_007:423  orderBy(desc(faults.views)) on the rows in the order scan:
\* rows of equal views stay in scan order
OrderByViews(scan) ==
    LET place == [i \in 1..Len(scan) |->
                    1 + Cardinality({j \in 1..Len(scan) :
                          \/ scan[j].views > scan[i].views
                          \/ j < i /\ scan[j].views = scan[i].views})]
    IN  [k \in 1..Len(scan) |-> scan[CHOOSE i \in 1..Len(scan) : place[i] = k]]

\* Array.prototype.reverse
Reverse(l) == [i \in 1..Len(l) |-> l[Len(l) + 1 - i]]

\* part_007:414-430  the query ran: matching rows by descending views, cut to
\* the limit; the order among rows of equal views is the server's choice
\* (here: by ascending or by descending id)
Retrieve ==
    /\ tPc = "table"
    /\ LET hit == Pick(faultRows, MatchingRows(faultRows, faultDescription))
       IN  \E scan \in {hit, Reverse(hit)} :
              retrieved' = slice(OrderByViews(scan), DefaultLimit)
    /\ tPc' = "returned"
    /\ UNCHANGED <<NotRetrieve, faultRows, faultDescription>>

\* part_007:410-411, 431-434  no connection, or the query threw: []
RetrieveFailed ==
    /\ tPc = "table"
    /\ retrieved' = <<>>
    /\ tPc' = "empty"
    /\ UNCHANGED <<NotRetrieve, faultRows, faultDescription>>

\* descriptions of stored faults and of requests
RowDescriptions == {<<"a", " ", "b", " ", "c">>, <<"a", " ", "b">>, <<"c", " ", "b", " ", "a">>, <<"x", "a", "x", "b", "x", "c">>}
RequestDescriptions == {<<"a", " ", "b", " ", "c">>, <<"a", " ", " ", "b", " ", "c">>, <<"c", " ", "b">>}

RowRuns(rows) ==
    Cardinality({i \in 1..(Len(rows) - 1) :
        \/ rows[i].faultDescription # rows[i + 1].faultDescription
        \/ rows[i].views # rows[i + 1].views}) + 1

\* a fault stored earlier (saveFaultAnalysis) and viewed (faults.get)
AddRow ==
    /\ tPc = "table"
    /\ Len(faultRows) < MaxRows
    /\ \E d \in RowDescriptions, v \in 0..1 :
         LET rows == Append(faultRows, [id |-> Len(faultRows) + 1,
                                        faultDescription |-> d, views |-> v])
         IN  /\ RowRuns(rows) <= MaxRowRuns
             /\ faultRows' = rows
    /\ UNCHANGED <<NotRetrieve, faultDescription, retrieved, tPc>>

\* ------------------------------------------------------ document context
\* Array.prototype.includes
Listed(ids, id) == \E k \in 1..Len(ids) : ids[k] = id

\* a textLen of -1 stands for extractedText = NULL
NullLen == 0 - 1

\* part_007:458  d.extractedText?.substring(0, 2000) || "": characters taken
CharsTaken(textLen) ==
    IF textLen = NullLen THEN 0 ELSE Min(textLen, PerDocumentCap)

\* part_007:741  `${d.extractedText?.substring(0, 5000)}`: characters taken;
\* a NULL text is printed as the 9 characters "undefined"
CharsTakenEnhanced(textLen) ==
    IF textLen = NullLen THEN 9 ELSE Min(textLen, EnhancedCap)

\* part_007:448-451  select from documents where userId = caller
OwnDocs(docs, uid) == {i \in 1..Len(docs) : docs[i].userId = uid}

\* part_007:738  select from documents (enhanced analyzeFault)
AllDocs(docs, uid) == 1..Len(docs)

\* part_007:453-460  docs.filter(d => documentIds.includes(d.id)).map(...):
\* the selected rows that are listed, in the order of the select
ContextOf(docs, selected, ids) ==
    LET relevant == Pick(docs, {i \in selected : Listed(ids, docs[i].id)})
    IN  [k \in 1..Len(relevant) |->
            [id |-> relevant[k].id, userId |-> relevant[k].userId,
             chars |-> CharsTaken(relevant[k].textLen)]]

\* part_007:739-742  the same filter and map in the enhanced analyzeFault
ContextOfEnhanced(docs, selected, ids) ==
    LET relevant == Pick(docs, {i \in selected : Listed(ids, docs[i].id)})
    IN  [k \in 1..Len(relevant) |->
            [id |-> relevant[k].id, userId |-> relevant[k].userId,
             chars |-> CharsTakenEnhanced(relevant[k].textLen)]]

\* part_007:479-485, 440-460  getDocumentContext(uploadedDocumentIds, userId)
getDocumentContext ==
    /\ cPc = "request"
    /\ documentContext' = ContextOf(documents, OwnDocs(documents, userId),
                                    uploadedDocumentIds)
    /\ cPc' = "context"
    /\ UNCHANGED <<NotContext, documents, uploadedDocumentIds, userId>>

\* part_007:444-445, 461-464  no connection or the select threw: ""
getDocumentContextFailed ==
    /\ cPc = "request"
    /\ uploadedDocumentIds # <<>>
    /\ documentContext' = <<>>
    /\ cPc' = "failed"
    /\ UNCHANGED <<NotContext, documents, uploadedDocumentIds, userId>>

\* part_007:736-743  the context as the enhanced analyzeFault assembles it
EnhancedContext ==
    /\ cPc = "request"
    /\ documentContext' = ContextOfEnhanced(documents, AllDocs(documents, userId),
                                            uploadedDocumentIds)
    /\ cPc' = "enhanced"
    /\ UNCHANGED <<NotContext, documents, uploadedDocumentIds, userId>>

\* ------------------------------------------------------ search.searchSources
\* words a scraped page is made of: a repair verb, a hazard word, a plain word
ContentWords == {<<"r", "e", "p", "l", "a", "c", "e">>,
                 <<"d", "a", "n", "g", "e", "r">>,
                 <<"p", "u", "m", "p">>}

\* part_008:242-245  the page text, whitespace collapsed to single blanks
Cleaned(words) == join(words, <<" ">>)

\* one more word on the page
AddWord ==
    /\ dPc = "scraping"
    /\ Len(scraped) < MaxWords
    /\ \E w \in ContentWords : scraped' = Append(scraped, w)
    /\ UNCHANGED <<NotDiscover, reply, dPc>>

\* search.ts:26-47, part_008:322-330  the source is scraped, its result is
\* pushed, and the handler replies with the extractor's output for the
\* result's content; neither the handler nor searchAllSources writes a faults row
searchSources ==
    /\ dPc = "scraping"
    /\ reply' = extractMaintenanceInfo(Cleaned(scraped))
    /\ dPc' = "returned"
    /\ UNCHANGED <<NotDiscover, scraped>>

\* ------------------------------------------------------ faults.get, faults.rateFault
\* concurrent calls on the same faults row
Calls == 1..MaxCalls

Kinds == {"get", "helpful", "notHelpful"}

\* part_007:117-122, 243-248  SELECT ... FROM faults WHERE id = faultId LIMIT 1
SelectFault == [views |-> views, helpful |-> helpful, notHelpful |-> notHelpful]

\* part_007:113-128 (get), 239-254 (rateFault: input.helpful picks the counter)
\* the call reads the row
ReadFault(c) ==
    /\ kPc[c] = "start"
    /\ \E k \in Kinds : callKind' = [callKind EXCEPT ![c] = k]
    /\ fault' = [fault EXCEPT ![c] = SelectFault]
    /\ kPc' = [kPc EXCEPT ![c] = "read"]
    /\ UNCHANGED <<NotCounters, views, helpful, notHelpful>>

\* part_007:130-133  UPDATE faults SET views = (fault.views || 0) + 1
UpdateViews(c) ==
    /\ kPc[c] = "read"
    /\ callKind[c] = "get"
    /\ views' = fault[c].views + 1
    /\ kPc' = [kPc EXCEPT ![c] = "done"]
    /\ UNCHANGED <<NotCounters, helpful, notHelpful, callKind, fault>>

\* part_007:255-263  helpful: UPDATE faults SET helpful = (fault.helpful || 0) + 1
UpdateHelpful(c) ==
    /\ kPc[c] = "read"
    /\ callKind[c] = "helpful"
    /\ helpful' = fault[c].helpful + 1
    /\ kPc' = [kPc EXCEPT ![c] = "done"]
    /\ UNCHANGED <<NotCounters, views, notHelpful, callKind, fault>>

\* part_007:255-263  not helpful: UPDATE faults SET notHelpful = (fault.notHelpful || 0) + 1
UpdateNotHelpful(c) ==
    /\ kPc[c] = "read"
    /\ callKind[c] = "notHelpful"
    /\ notHelpful' = fault[c].notHelpful + 1
    /\ kPc' = [kPc EXCEPT ![c] = "done"]
    /\ UNCHANGED <<NotCounters, views, helpful, callKind, fault>>

\* part_007:264-267 and the catch of get  the UPDATE threw: the call fails
UpdateFailed(c) ==
    /\ kPc[c] = "read"
    /\ kPc' = [kPc EXCEPT ![c] = "failed"]
    /\ UNCHANGED <<NotCounters, views, helpful, notHelpful, callKind, fault>>

\* ------------------------------------------------------ cleanupOldNotifications
\* part_002:286-287  the WHERE of the DELETE: isRead = true and
\* createdAt >= thirtyDaysAgo, that is, created at most 30 days before now
Deletes(n) == n.isRead /\ n.age <= RetentionDays

\* part_002:275-291  DELETE FROM notifications WHERE ...; returns affectedRows
cleanupOldNotifications ==
    /\ nPc = "table"
    /\ LET gone == {i \in 1..Len(notifications) : Deletes(notifications[i])}
       IN  /\ notifications' = Pick(notifications, (1..Len(notifications)) \ gone)
           /\ removed' = Pick(notifications, gone)
           /\ affectedRows' = Cardinality(gone)
    /\ nPc' = "cleaned"
    /\ UNCHANGED NotCleanup

\* part_002:276-277, 292-295  no connection or the DELETE threw
cleanupFailed ==
    /\ nPc = "table"
    /\ nPc' = "threw"
    /\ UNCHANGED <<NotCleanup, notifications, removed, affectedRows>>

\* ------------------------------------------------------ subscription manager
Tiers == {"free", "individual", "corporate"}

\* part_001:58-77  SUBSCRIPTION_TIERS[tier].queriesPerMonth
QueriesPerMonth(tier) ==
    CASE tier = "free" -> 10
      [] tier = "individual" -> 10
      [] tier = "corporate" -> 20

\* the state no subscription function touches: the requests' own variables,
\* the faults and queryHistory tables, and the other parts
RequestVars == <<initialBalance, totalQueriesUsed, faults, queryHistory, pc, user,
                 saveToKnowledgeBase, faultId, err, llmCalls, userWrites>>
BesideSubscription ==
    <<RequestVars, SearchVars, ScoreVars, RankVars, ExtractVars, PartsVars, SynthVars,
      RetrieveVars, ContextVars, DiscoverVars, CountersVars, CleanupVars>>

\* part_001:135-170  INSERT INTO subscriptions (expiry in 30 days), then
\* UPDATE users SET subscriptionTier = tier, queriesRemaining = queriesPerMonth
createSubscription(tier) ==
    /\ grants < MaxGrants
    /\ hasSubscription' = TRUE
    /\ IF hasRow
       THEN /\ subscriptionTier' = tier
            /\ queriesRemaining' = QueriesPerMonth(tier)
            /\ granted' = QueriesPerMonth(tier)
       ELSE UNCHANGED <<subscriptionTier, queriesRemaining, granted>>
    /\ grants' = grants + 1
    /\ UNCHANGED <<BesideSubscription, hasRow, status>>

\* part_001:243-266  for the caller's users row:
\* UPDATE users SET queriesRemaining = queriesPerMonth of the row's tier
resetMonthlyQuotas ==
    /\ grants < MaxGrants
    /\ hasRow
    /\ queriesRemaining' = QueriesPerMonth(subscriptionTier)
    /\ granted' = QueriesPerMonth(subscriptionTier)
    /\ grants' = grants + 1
    /\ UNCHANGED <<BesideSubscription, hasRow, subscriptionTier, hasSubscription, status>>

\* part_001:85-125  getUserSubscription(userId).queriesRemaining: the free
\* tier's 10 when no unexpired subscription exists, else
\* user[0]?.queriesRemaining || 0
getUserSubscription ==
    IF ~hasSubscription
    THEN [tier |-> "free", queriesRemaining |-> FreeTierQueries]
    ELSE [tier |-> subscriptionTier,
          queriesRemaining |-> IF hasRow THEN queriesRemaining ELSE 0]

\* part_001:186-199  hasQueriesRemaining(userId)
hasQueriesRemaining == hasRow /\ queriesRemaining > 0

\* subscriptions.ts:22-31  subscriptions.getStatus; status holds the last
\* reply, and a reply equal to the one before it is no step
getStatus ==
    /\ status' = [from |-> "getStatus",
                  queriesRemaining |-> getUserSubscription.queriesRemaining,
                  hasQueries |-> FALSE]
    /\ status' # status
    /\ UNCHANGED <<BesideSubscription, hasRow, queriesRemaining, subscriptionTier,
                   hasSubscription, granted, grants>>

\* subscriptions.ts:187-196  subscriptions.hasQueriesRemaining
hasQueriesRemainingQuery ==
    /\ status' = [from |-> "hasQueriesRemaining",
                  queriesRemaining |-> getUserSubscription.queriesRemaining,
                  hasQueries |-> hasQueriesRemaining]
    /\ status' # status
    /\ UNCHANGED <<BesideSubscription, hasRow, queriesRemaining, subscriptionTier,
                   hasSubscription, granted, grants>>

\* part_001:98  gte(subscriptions.expiryDate, new Date()): the subscription's
\* expiry date has passed
SubscriptionExpired ==
    /\ hasSubscription
    /\ hasSubscription' = FALSE
    /\ UNCHANGED <<BesideSubscription, hasRow, queriesRemaining, subscriptionTier,
                   granted, grants, status>>

\* ------------------------------------------------------ specifications
\* users.queriesRemaining is an int column, default 10; a caller may have no row
InitAnalyze ==
    /\ hasRow \in BOOLEAN
    /\ queriesRemaining \in 0..MaxBalance
    /\ hasRow = FALSE => queriesRemaining = 0
    /\ totalQueriesUsed = 0
    /\ initialBalance = queriesRemaining
    /\ faults = <<>>
    /\ queryHistory = <<>>
    /\ pc = [r \in Reqs |-> "start"]
    /\ user = [r \in Reqs |-> NoUser]
    /\ saveToKnowledgeBase = [r \in Reqs |-> FALSE]
    /\ faultId = [r \in Reqs |-> 0]
    /\ err = [r \in Reqs |-> "none"]
    /\ llmCalls = [r \in Reqs |-> 0]
    /\ userWrites = [r \in Reqs |-> 0]

ParkedAnalyze ==
    /\ hasRow = FALSE
    /\ queriesRemaining = 0
    /\ totalQueriesUsed = 0
    /\ initialBalance = 0
    /\ faults = <<>>
    /\ queryHistory = <<>>
    /\ pc = [r \in Reqs |-> "parked"]
    /\ user = [r \in Reqs |-> NoUser]
    /\ saveToKnowledgeBase = [r \in Reqs |-> FALSE]
    /\ faultId = [r \in Reqs |-> 0]
    /\ err = [r \in Reqs |-> "none"]
    /\ llmCalls = [r \in Reqs |-> 0]
    /\ userWrites = [r \in Reqs |-> 0]

\* a table holding more active sources than the run returns results
WideTable == Cardinality(DOMAIN isActive) > MaxSources

\* any table of up to MaxSources sources, or one of TopN + 1 active sources;
\* none scraped yet; one run about to start
InitSearch ==
    /\ \/ isActive \in [1..MaxSources -> BOOLEAN]
       \/ isActive = [i \in 1..(TopN + 1) |-> TRUE]
    /\ lastScraped = [i \in SourceIds |-> "null"]
    /\ searchQuery \in SearchQueries
    /\ sPc = "start"
    /\ sources = <<>>
    /\ idx = 0
    /\ results = <<>>
    /\ sourcesSearched = <<>>
    /\ robots = "none"
    /\ pageFetched = FALSE
    /\ outcome = [i \in SourceIds |-> "none"]
    /\ delayed = FALSE

ParkedSearch ==
    /\ isActive = <<>>
    /\ lastScraped = <<>>
    /\ searchQuery = <<>>
    /\ sPc = "parked"
    /\ sources = <<>>
    /\ idx = 0
    /\ results = <<>>
    /\ sourcesSearched = <<>>
    /\ robots = "none"
    /\ pageFetched = FALSE
    /\ outcome = <<>>
    /\ delayed = FALSE

RECURSIVE Strings(_, _)
Strings(alphabet, n) ==
    IF n = 0 THEN {<<>>}
    ELSE LET shorter == Strings(alphabet, n - 1)
         IN  shorter \cup {Append(s, c) : s \in shorter, c \in alphabet}

\* String.prototype.trim leaves no space at either end
Trimmed(s) == s = <<>> \/ (s[1] # " " /\ s[Len(s)] # " ")

\* search.ts:24  the query handed to searchAllSources is trimmed; the content
\* is whitespace-collapsed and trimmed (part_008:242-245)
InitScore ==
    /\ query \in {q \in Strings({"a", "B", " "}, MaxQueryLen) : Trimmed(q)}
    /\ content \in Strings({"a", "b", "B"}, MaxContentLen)
    /\ relevanceScore = NoScore
    /\ scPc = "input"

ParkedScore ==
    /\ query = <<>>
    /\ content = <<>>
    /\ relevanceScore = NoScore
    /\ scPc = "parked"

InitRank ==
    /\ gathered = <<>>
    /\ returned = <<>>
    /\ rPc = "gathering"

ParkedRank ==
    /\ gathered = <<>>
    /\ returned = <<>>
    /\ rPc = "parked"

NoInfo == [parts |-> <<>>, procedures |-> <<>>, warnings |-> <<>>]

InitExtract ==
    /\ textLines = <<>>
    /\ info = NoInfo
    /\ xPc = "input"

ParkedExtract ==
    /\ textLines = <<>>
    /\ info = NoInfo
    /\ xPc = "parked"

\* part names: non-empty, without a comma
PartNames == Strings({"P", "-", "1"}, MaxNameLen) \ {<<>>}

RECURSIVE Lists(_, _)
Lists(S, n) ==
    IF n = 0 THEN {<<>>}
    ELSE LET shorter == Lists(S, n - 1)
         IN  shorter \cup {Append(l, x) : l \in shorter, x \in S}

InitParts ==
    /\ partsRequired \in Lists(PartNames, MaxParts)
    /\ partsColumn = NullText
    /\ partsRead = <<>>
    /\ pPc = "input"

ParkedParts ==
    /\ partsRequired = <<>>
    /\ partsColumn = NullText
    /\ partsRead = <<>>
    /\ pPc = "parked"

\* lists without repetition
Distinct(l) == \A i, j \in 1..Len(l) : l[i] = l[j] => i = j

\* part_007:426-430  a record as findSimilarFaults returns it
SimilarRecord(i) == [id |-> i, description |-> <<"d", Digits[i + 1]>>]

\* what the service may answer once its message parses: any difficulty, a
\* missing one, one outside the enum; possibly an added relatedFaults property
Payloads ==
    {[difficulty |-> d, extra |-> FALSE, relatedFaults |-> <<>>] :
        d \in Difficulties \cup {"undefined", "bogus"}}
    \cup
    {[difficulty |-> d, extra |-> TRUE, relatedFaults |-> rf] :
        d \in Difficulties \cup {"undefined", "bogus"},
        rf \in {<<>>, <<[id |-> 0, description |-> <<"x">>,
                         similarity |-> "1.0"]>>}}

NoAnalysis == [returned |-> FALSE, difficulty |-> "undefined", relatedFaults |-> <<>>]
NoRow == [stored |-> FALSE, difficulty |-> ""]

InitSynth ==
    /\ similarFaults \in {[i \in 1..Len(l) |-> SimilarRecord(l[i])] :
                            l \in {m \in Lists(1..(MaxSimilar + 1), MaxSimilar) :
                                      Distinct(m)}}
    /\ llmPayload \in Payloads
    /\ saveRequested \in BOOLEAN
    /\ analysis = NoAnalysis
    /\ faultRow = NoRow
    /\ yPc = "parsed"

ParkedSynth ==
    /\ similarFaults = <<>>
    /\ llmPayload = [difficulty |-> "undefined", extra |-> FALSE, relatedFaults |-> <<>>]
    /\ saveRequested = FALSE
    /\ analysis = NoAnalysis
    /\ faultRow = NoRow
    /\ yPc = "parked"

InitRetrieve ==
    /\ faultRows = <<>>
    /\ faultDescription \in RequestDescriptions
    /\ retrieved = <<>>
    /\ tPc = "table"

ParkedRetrieve ==
    /\ faultRows = <<>>
    /\ faultDescription = <<>>
    /\ retrieved = <<>>
    /\ tPc = "parked"

\* lengths of extractedText: NULL, short, just over each cap
TextLens == {NullLen, 10, PerDocumentCap + 1, EnhancedCap + 1}

\* documents of the caller (user 1) and of another user (user 2); the request
\* lists ids of rows and possibly an id that is no row
InitContext ==
    /\ userId = 1
    /\ \E n \in 0..MaxDocs :
          documents \in {[i \in 1..n |-> [id |-> i, userId |-> o[i], textLen |-> t[i]]] :
                            o \in [1..n -> 1..2], t \in [1..n -> TextLens]}
    /\ uploadedDocumentIds \in Lists(1..(MaxDocs + 1), MaxRequested)
    /\ documentContext = <<>>
    /\ cPc = "request"

ParkedContext ==
    /\ userId = 0
    /\ documents = <<>>
    /\ uploadedDocumentIds = <<>>
    /\ documentContext = <<>>
    /\ cPc = "parked"

InitDiscover ==
    /\ scraped = <<>>
    /\ reply = NoInfo
    /\ dPc = "scraping"

ParkedDiscover ==
    /\ scraped = <<>>
    /\ reply = NoInfo
    /\ dPc = "parked"

\* schema.ts: views, helpful and notHelpful are int columns with default 0
InitCounters ==
    /\ views = 0
    /\ helpful = 0
    /\ notHelpful = 0
    /\ kPc = [c \in Calls |-> "start"]
    /\ callKind = [c \in Calls |-> "get"]
    /\ fault = [c \in Calls |-> SelectFault]

ParkedCounters ==
    /\ views = 0
    /\ helpful = 0
    /\ notHelpful = 0
    /\ kPc = [c \in Calls |-> "parked"]
    /\ callKind = [c \in Calls |-> "get"]
    /\ fault = [c \in Calls |-> [views |-> 0, helpful |-> 0, notHelpful |-> 0]]

\* ages in days of a notification: new, exactly at the limit, older
Ages == {0, RetentionDays, RetentionDays + 1}

InitCleanup ==
    /\ \E n \in 0..MaxNotifications :
          notifications \in {[i \in 1..n |-> [id |-> i, isRead |-> rd[i], age |-> ag[i]]] :
                                rd \in [1..n -> BOOLEAN], ag \in [1..n -> Ages]}
    /\ removed = <<>>
    /\ affectedRows = 0
    /\ nPc = "table"

ParkedCleanup ==
    /\ notifications = <<>>
    /\ removed = <<>>
    /\ affectedRows = 0
    /\ nPc = "parked"

NoStatus == [from |-> "none", queriesRemaining |-> 0, hasQueries |-> FALSE]

\* a caller of any tier, with or without an unexpired subscription
InitSubscription ==
    /\ subscriptionTier \in Tiers
    /\ hasSubscription \in BOOLEAN
    /\ granted = 0
    /\ grants = 0
    /\ status = NoStatus

ParkedSubscription ==
    /\ subscriptionTier = "free"
    /\ hasSubscription = FALSE
    /\ granted = 0
    /\ grants = 0
    /\ status = NoStatus

ParkedLater ==
    ParkedExtract /\ ParkedParts /\ ParkedSynth /\ ParkedRetrieve /\ ParkedContext /\ ParkedDiscover /\ ParkedCounters /\ ParkedCleanup /\ ParkedSubscription
ParkedEarlier == ParkedAnalyze /\ ParkedSearch /\ ParkedScore /\ ParkedRank

Init == InitAnalyze /\ ParkedSearch /\ ParkedScore /\ ParkedRank /\ ParkedLater

Next ==
    \E r \in Reqs :
        \/ NoDb(r)
        \/ Gate(r)
        \/ CallLLM(r)
        \/ LLMOk(r)
        \/ LLMFail(r)
        \/ saveFaultAnalysis(r)
        \/ saveFaultAnalysisFail(r)
        \/ SkipSave(r)
        \/ logQuery(r)
        \/ logQueryFail(r)
        \/ Settle(r)
        \/ SettleFail(r)

Spec == Init /\ [][Next]_vars

InitOfSearch == ParkedAnalyze /\ InitSearch /\ ParkedScore /\ ParkedRank /\ ParkedLater

\* The wide table is searched with every page answering the same content and
\* every lastScraped update succeeding; the small tables with every outcome.
NextSearch ==
    \/ SearchStart
    \/ SearchStartFail
    \/ BeginSource
    \/ RobotsFetched
    \/ RobotsFailed
    \/ \E c \in (IF WideTable THEN {<<"a">>} ELSE PageContents) : PageOk(c)
    \/ ~WideTable /\ PageTimeout
    \/ ~WideTable /\ PageHttpError
    \/ ~WideTable /\ PageParseError
    \/ UpdateLastScraped
    \/ ~WideTable /\ UpdateLastScrapedFail
    \/ DelayElapsed
    \/ SearchReturn

SpecSearch == InitOfSearch /\ [][NextSearch]_vars

\* every request and timer of a run ends: the robots.txt and page requests have
\* timeouts (part_008:166, 201), the delay is a 1000 ms timer (part_008:337)
FairSpecSearch == SpecSearch /\ WF_vars(NextSearch)

InitOfScore == ParkedAnalyze /\ ParkedSearch /\ InitScore /\ ParkedRank /\ ParkedLater

NextScore == ComputeScore

SpecScore == InitOfScore /\ [][NextScore]_vars

InitOfRank == ParkedAnalyze /\ ParkedSearch /\ ParkedScore /\ InitRank /\ ParkedLater

NextRank ==
    \/ Gather
    \/ Rank

SpecRank == InitOfRank /\ [][NextRank]_vars

InitOfExtract == ParkedEarlier /\ InitExtract /\ ParkedParts /\ ParkedSynth /\ ParkedRetrieve /\ ParkedContext /\ ParkedDiscover /\ ParkedCounters /\ ParkedCleanup /\ ParkedSubscription

NextExtract ==
    \/ AddLine
    \/ Extract

SpecExtract == InitOfExtract /\ [][NextExtract]_vars

InitOfParts == ParkedEarlier /\ ParkedExtract /\ InitParts /\ ParkedSynth /\ ParkedRetrieve /\ ParkedContext /\ ParkedDiscover /\ ParkedCounters /\ ParkedCleanup /\ ParkedSubscription

NextParts ==
    \/ StoreParts
    \/ GetParts

SpecParts == InitOfParts /\ [][NextParts]_vars

InitOfSynth == ParkedEarlier /\ ParkedExtract /\ ParkedParts /\ InitSynth /\ ParkedRetrieve /\ ParkedContext /\ ParkedDiscover /\ ParkedCounters /\ ParkedCleanup /\ ParkedSubscription

NextSynth ==
    \/ ReturnAnalysis
    \/ SaveRow
    \/ SaveRowRejected
    \/ SaveRowCoerced
    \/ KeepAnalysis

SpecSynth == InitOfSynth /\ [][NextSynth]_vars

InitOfRetrieve == ParkedEarlier /\ ParkedExtract /\ ParkedParts /\ ParkedSynth /\ InitRetrieve /\ ParkedContext /\ ParkedDiscover /\ ParkedCounters /\ ParkedCleanup /\ ParkedSubscription

NextRetrieve ==
    \/ AddRow
    \/ Retrieve
    \/ RetrieveFailed

SpecRetrieve == InitOfRetrieve /\ [][NextRetrieve]_vars

InitOfContext ==
    ParkedEarlier /\ ParkedExtract /\ ParkedParts /\ ParkedSynth /\ ParkedRetrieve
                  /\ InitContext /\ ParkedDiscover /\ ParkedCounters /\ ParkedCleanup /\ ParkedSubscription

\* the repository holds two versions of the context assembly; either may be
\* the one built
NextContext ==
    \/ getDocumentContext
    \/ getDocumentContextFailed
    \/ EnhancedContext

SpecContext == InitOfContext /\ [][NextContext]_vars

InitOfDiscover ==
    ParkedEarlier /\ ParkedExtract /\ ParkedParts /\ ParkedSynth /\ ParkedRetrieve
                  /\ ParkedContext /\ InitDiscover /\ ParkedCounters /\ ParkedCleanup /\ ParkedSubscription

NextDiscover ==
    \/ AddWord
    \/ searchSources

SpecDiscover == InitOfDiscover /\ [][NextDiscover]_vars

InitOfCounters ==
    ParkedEarlier /\ ParkedExtract /\ ParkedParts /\ ParkedSynth /\ ParkedRetrieve
                  /\ ParkedContext /\ ParkedDiscover /\ InitCounters /\ ParkedCleanup /\ ParkedSubscription

NextCounters ==
    \E c \in Calls :
        \/ ReadFault(c)
        \/ UpdateViews(c)
        \/ UpdateHelpful(c)
        \/ UpdateNotHelpful(c)
        \/ UpdateFailed(c)

SpecCounters == InitOfCounters /\ [][NextCounters]_vars

InitOfCleanup ==
    ParkedEarlier /\ ParkedExtract /\ ParkedParts /\ ParkedSynth /\ ParkedRetrieve
                  /\ ParkedContext /\ ParkedDiscover /\ ParkedCounters /\ InitCleanup /\ ParkedSubscription

NextCleanup ==
    \/ cleanupOldNotifications
    \/ cleanupFailed

SpecCleanup == InitOfCleanup /\ [][NextCleanup]_vars

ParkedBetween ==
    ParkedExtract /\ ParkedParts /\ ParkedSynth /\ ParkedRetrieve /\ ParkedContext
                  /\ ParkedDiscover /\ ParkedCounters /\ ParkedCleanup

\* faults.analyze requests of a caller whose quota is granted meanwhile
InitOfGrant ==
    InitAnalyze /\ ParkedSearch /\ ParkedScore /\ ParkedRank /\ ParkedBetween
                /\ InitSubscription

NextGrant ==
    \/ Next
    \/ \E tier \in Tiers : createSubscription(tier)
    \/ resetMonthlyQuotas

SpecGrant == InitOfGrant /\ [][NextGrant]_vars

\* the caller's balance and subscription as any earlier use left them; no
\* request is in flight
InitOfStatus ==
    /\ hasRow \in BOOLEAN
    /\ queriesRemaining \in 0..MaxBalance
    /\ hasRow = FALSE => queriesRemaining = 0
    /\ totalQueriesUsed = 0
    /\ initialBalance = queriesRemaining
    /\ faults = <<>>
    /\ queryHistory = <<>>
    /\ pc = [r \in Reqs |-> "parked"]
    /\ user = [r \in Reqs |-> NoUser]
    /\ saveToKnowledgeBase = [r \in Reqs |-> FALSE]
    /\ faultId = [r \in Reqs |-> 0]
    /\ err = [r \in Reqs |-> "none"]
    /\ llmCalls = [r \in Reqs |-> 0]
    /\ userWrites = [r \in Reqs |-> 0]
    /\ ParkedSearch /\ ParkedScore /\ ParkedRank /\ ParkedBetween
    /\ InitSubscription

NextStatus ==
    \/ \E tier \in Tiers : createSubscription(tier)
    \/ resetMonthlyQuotas
    \/ SubscriptionExpired
    \/ getStatus
    \/ hasQueriesRemainingQuery

SpecStatus == InitOfStatus /\ [][NextStatus]_vars

\* ------------------------------------------------------------ claims C1-C4
Succeeded == {r \in Reqs : pc[r] = "done"}
Finished(r) == pc[r] \in {"done", "failed"}
RowsOf(table, r) == {i \in 1..Len(table) : table[i].req = r}
Rejected(r) == pc[r] = "failed" /\ err[r] = "quota"
\* the request has read the caller's row and evaluated the quota check
Checked(r) == pc[r] # "start" /\ err[r] # "nodb"

\* C1: once all concurrent requests of the caller have finished, at most
\* initialBalance of them succeeded and queriesRemaining equals the initial
\* balance minus the number of successes.
C1_AtMostBalanceSucceed ==
    (\A r \in Reqs : Finished(r)) =>
        /\ Cardinality(Succeeded) <= initialBalance
        /\ queriesRemaining = initialBalance - Cardinality(Succeeded)

\* C2: a step of a request changes queriesRemaining only when it completes the
\* request successfully, and then lowers it by exactly 1; every other step,
\* a failing one included, leaves it unchanged.
C2_DeductExactlyOneOnSuccess ==
    [][\A r \in Reqs :
          pc'[r] # pc[r] =>
              IF pc'[r] = "done"
              THEN queriesRemaining' = queriesRemaining - 1
              ELSE queriesRemaining' = queriesRemaining]_vars

\* C3: a call to the generative service and every faults / queryHistory row of
\* a request come after its balance check, which found a positive balance; a
\* request rejected by the gate has issued no call.
C3_GateBeforeExternalCall ==
    \A r \in Reqs :
        /\ (llmCalls[r] > 0 \/ RowsOf(faults, r) # {} \/ RowsOf(queryHistory, r) # {})
              => (Checked(r) /\ user[r].found /\ user[r].queriesRemaining > 0)
        /\ Rejected(r) => llmCalls[r] = 0

C3_Witness ==
    \E r, q \in Reqs :
        /\ llmCalls[r] > 0 /\ RowsOf(faults, r) # {} /\ RowsOf(queryHistory, r) # {}
        /\ Rejected(q) /\ llmCalls[q] = 0

\* C4: a request that finds no users row or a balance of 0 or less ends with the
\* quota-exceeded error and has no side effect: no call to the generative
\* service, no faults row, no queryHistory row, no write of the users row.
C4_QuotaExceededNoSideEffect ==
    \A r \in Reqs :
        (Checked(r) /\ (~user[r].found \/ user[r].queriesRemaining <= 0))
            => /\ Rejected(r)
               /\ llmCalls[r] = 0
               /\ RowsOf(faults, r) = {}
               /\ RowsOf(queryHistory, r) = {}
               /\ userWrites[r] = 0

C4_Witness ==
    \E r, q \in Reqs :
        /\ Rejected(r) /\ user[r].found /\ user[r].queriesRemaining = 0
        /\ pc[q] = "done"

\* ------------------------------------------------------------ claims C5-C10
OkSources == {i \in SourceIds : outcome[i] = "ok"}
ResultSources == {results[k].src : k \in 1..Len(results)}

\* C5 as stated: the returned results hold one entry for each source that
\* succeeded and none for a failed one, and sourcesSearched names every active
\* source.
C5_OneResultPerSucceededSource ==
    sPc = "returned" =>
        /\ ResultSources = OkSources
        /\ Len(results) = Cardinality(OkSources)
        /\ sourcesSearched = InOrder(ActiveSources)

\* C5 amended: a run whose sources were loaded is never aborted by a failing
\* source: it eventually returns; the returned results hold one entry for each
\* source that succeeded, cut to 20 entries when more than 20 succeeded, and
\* none for a failed one; sourcesSearched names every active source; the run
\* throws only before the first source is searched.
C5_BatchSurvivesSourceFailures ==
    /\ [](sPc = "returned" =>
            /\ ResultSources \subseteq OkSources
            /\ Cardinality(ResultSources) = Len(results)
            /\ Len(results) = Min(TopN, Cardinality(OkSources))
            /\ sourcesSearched = InOrder(ActiveSources))
    /\ [](sPc = "threw" => idx = 0)
    /\ (sPc = "next") ~> (sPc = "returned")

C5_Witness ==
    /\ sPc = "returned"
    /\ Len(sourcesSearched) = 3
    /\ Len(results) = 2
    /\ \E i \in SourceIds : outcome[i] = "timeout"

Kept == {returned[k] : k \in 1..Len(returned)}
Gathered == {gathered[k] : k \in 1..Len(gathered)}

\* C6: the returned results are in non-increasing order of relevanceScore, are
\* at most 20 (all of the gathered ones when these are 20 or fewer), and no
\* gathered result left out scores higher than a returned one.
C6_RankedAndCapped ==
    rPc = "returned" =>
        /\ Len(returned) <= TopN
        /\ Len(returned) = Min(TopN, Len(gathered))
        /\ Cardinality(Kept) = Len(returned)
        /\ Kept \subseteq Gathered
        /\ \A k \in 1..(Len(returned) - 1) :
              ~ScoreLess(returned[k].relevanceScore, returned[k + 1].relevanceScore)
        /\ \A d \in Gathered \ Kept : \A k \in Kept :
              ~ScoreLess(k.relevanceScore, d.relevanceScore)

C6_Witness ==
    /\ rPc = "returned"
    /\ Len(gathered) > TopN
    /\ ScoreLess(gathered[1].relevanceScore, gathered[Len(gathered)].relevanceScore)
    /\ gathered[Len(gathered)] \in Kept
    /\ gathered[1] \notin Kept

\* requests of the run to external sources that are in flight
InFlight == IF sPc \in {"robots", "page"} THEN {sources[idx]} ELSE {}

\* C7: at most one source fetch is in flight, and when the fetch of a second or
\* later source is in flight the politeness delay has elapsed since the
\* previous source, whatever happened to that source and its lastScraped write.
C7_OneFetchAndDelayBetweenSources ==
    /\ Cardinality(InFlight) <= 1
    /\ (sPc \in {"robots", "page"} /\ idx > 1) => delayed

\* C8: after a failed robots.txt check the page of the source is requested and
\* the source is not skipped as denied.
C8_FailedPolicyCheckAllows ==
    (robots = "failed" /\ sPc \in {"page", "update", "delay"}) =>
        /\ pageFetched
        /\ outcome[sources[idx]] # "denied"

C8_Witness ==
    /\ robots = "failed"
    /\ sPc = "update"
    /\ pageFetched
    /\ outcome[sources[idx]] = "ok"

\* C9: when the robots.txt of the source was fetched and disallows scraping, no
\* page request is issued for the source and it yields no result.
C9_DisallowedSourceNotFetched ==
    (robots = "disallows" /\ sPc \in {"page", "update", "delay"}) =>
        /\ ~pageFetched
        /\ sources[idx] \notin ResultSources

\* the tokens of a query: its maximal runs of characters other than the space
TokenStarts(q) == {i \in 1..Len(q) : q[i] # " " /\ (i = 1 \/ q[i - 1] = " ")}
TokenEnd(q, i) ==
    CHOOSE j \in i..Len(q) :
        /\ \A k \in i..j : q[k] # " "
        /\ j = Len(q) \/ q[j + 1] = " "
TokenAt(q, i) == SubSeq(q, i, TokenEnd(q, i))
TokensFound(c, q) ==
    {i \in TokenStarts(q) : includes(toLowerCase(c), toLowerCase(TokenAt(q, i)))}

\* C10: for a query with at least one token the score lies in [0,1], equals the
\* number of query tokens that are substrings of the lowercased content divided
\* by the number of query tokens, and is 1 exactly when every token is one.
C10_ScoreIsTokenFraction ==
    (scPc = "scored" /\ TokenStarts(query) # {}) =>
        /\ 0 <= relevanceScore.num
        /\ relevanceScore.num <= relevanceScore.den
        /\ relevanceScore.num * Cardinality(TokenStarts(query))
              = Cardinality(TokensFound(content, query)) * relevanceScore.den
        /\ (relevanceScore.num = relevanceScore.den
              <=> TokensFound(content, query) = TokenStarts(query))

\* ------------------------------------------------------------ claim C11
\* C11: for a query with zero tokens (empty or blank) the relevance score is 0,
\* whatever the content; it is never 1.
C11_BlankQueryScoresZero ==
    (scPc = "scored" /\ TokenStarts(query) = {}) => relevanceScore.num = 0

\* ------------------------------------------------------------ claim C12
NoDuplicates(list) ==
    \A i, j \in 1..Len(list) : list[i] = list[j] => i = j

\* C12: for every input text the extractor returns at most 10 parts, at most
\* 15 procedures and at most 5 warnings, and no category holds an entry twice.
C12_ExtractCappedAndDistinct ==
    xPc = "extracted" =>
        /\ Len(info.parts) <= PartsCap
        /\ Len(info.procedures) <= ProceduresCap
        /\ Len(info.warnings) <= WarningsCap
        /\ NoDuplicates(info.parts)
        /\ NoDuplicates(info.procedures)
        /\ NoDuplicates(info.warnings)

\* ------------------------------------------------------------ claim C13
\* C13: a partsRequired list (of comma-free part names) stored by
\* saveFaultAnalysis and read back by faults.get is the original list, element
\* for element, the empty list and lists of two or more parts included.
C13_PartsRoundTrip ==
    pPc = "read" => partsRead = partsRequired

\* ------------------------------------------------------------ claim C14
\* C14: when the payload of the generative service does not conform to the
\* schema (difficulty missing or outside the enum, or an extra property), the
\* analysis fails: no AnalysisResult is returned and no FaultRecord is stored.
C14_NonConformingPayloadFails ==
    ~Conforms(llmPayload) => (~analysis.returned /\ ~faultRow.stored)

SynthesisFailed(r) == pc[r] = "failed" /\ err[r] = "synthesis"

\* C15: when the generative service is unreachable, answers with a non-success
\* status or with an empty or unparseable message, faults.analyze ends with an
\* error and has written nothing: the request has no faults row, no
\* queryHistory row and no update of the caller's balance, and the step that
\* fails it leaves the tables and the balance as they were.
C15_SynthesisFailureWritesNothing ==
    /\ [](\A r \in Reqs :
            err[r] = "synthesis" =>
                /\ pc[r] = "failed"
                /\ RowsOf(faults, r) = {}
                /\ RowsOf(queryHistory, r) = {}
                /\ userWrites[r] = 0)
    /\ [][\A r \in Reqs :
            (SynthesisFailed(r)' /\ ~SynthesisFailed(r)) =>
                UNCHANGED <<hasRow, queriesRemaining, totalQueriesUsed, faults,
                            queryHistory>>]_vars

C15_Witness ==
    \E r, q \in Reqs :
        /\ SynthesisFailed(r)
        /\ llmCalls[r] > 0
        /\ pc[q] = "done"
        /\ queryHistory # <<>>

\* ------------------------------------------------------------ claims C17, C18
\* the first three whitespace-delimited tokens of a description
FirstTokens(d) ==
    LET starts == {i \in TokenStarts(d) :
                      Cardinality({j \in TokenStarts(d) : j < i}) < 3}
        nth(k) == CHOOSE i \in starts : Cardinality({j \in starts : j < i}) = k - 1
    IN  [k \in 1..Cardinality(starts) |-> TokenAt(d, nth(k))]

MatchesTokens(row) == Like(row.faultDescription, FirstTokens(faultDescription))
Retrieved == {retrieved[k] : k \in 1..Len(retrieved)}
Stored == {faultRows[k] : k \in 1..Len(faultRows)}

\* C17: findSimilarFaults returns at most limit (5) records, each matching the
\* wildcard pattern of the first 3 whitespace-delimited tokens of the
\* description, by non-increasing views; a matching record is left out only
\* when limit matching records with at least as many views are returned.
C17_RetrievalMatchesLimitedOrdered ==
    tPc = "returned" =>
        /\ Len(retrieved) <= DefaultLimit
        /\ Retrieved \subseteq Stored
        /\ Cardinality(Retrieved) = Len(retrieved)
        /\ \A r \in Retrieved : MatchesTokens(r)
        /\ \A k \in 1..(Len(retrieved) - 1) :
              retrieved[k].views >= retrieved[k + 1].views
        /\ \A row \in Stored \ Retrieved :
              MatchesTokens(row) =>
                  /\ Len(retrieved) = DefaultLimit
                  /\ \A r \in Retrieved : r.views >= row.views

\* the whitespace-delimited tokens of a description
Tokens(d) == {TokenAt(d, i) : i \in TokenStarts(d)}
HighOverlap(row) == Tokens(faultDescription) \subseteq Tokens(row.faultDescription)
ZeroOverlap(row) == Tokens(faultDescription) \cap Tokens(row.faultDescription) = {}

\* C18: a stored record whose description contains the tokens of the request's
\* description is returned, and no returned record that shares no token with
\* the request's description stands ahead of it.
C18_HighOverlapReturnedFirst ==
    tPc = "returned" =>
        \A row \in Stored :
            HighOverlap(row) =>
                \E k \in 1..Len(retrieved) :
                    /\ retrieved[k] = row
                    /\ \A j \in 1..(k - 1) : ~ZeroOverlap(retrieved[j])

\* ------------------------------------------------------------ claims C19, C20
Assembled == cPc \in {"context", "enhanced"}

\* C19: the assembled document context holds text only of documents owned by
\* the requesting caller, whatever ids the request lists.
C19_ContextOnlyOwnDocuments ==
    Assembled =>
        \A k \in 1..Len(documentContext) : documentContext[k].userId = userId

\* position of the first occurrence of id in the request's list
FirstListed(id) ==
    CHOOSE k \in 1..Len(uploadedDocumentIds) :
        /\ uploadedDocumentIds[k] = id
        /\ \A j \in 1..(k - 1) : uploadedDocumentIds[j] # id

\* C20: each document contributes at most the per-document cap of extracted
\* text, and the documents stand in the context in the order in which the
\* request lists them (so that a cut to any budget keeps the earlier-requested).
C20_ContextCappedInRequestOrder ==
    Assembled =>
        /\ \A k \in 1..Len(documentContext) :
              /\ Listed(uploadedDocumentIds, documentContext[k].id)
              /\ documentContext[k].chars
                    <= (IF cPc = "enhanced" THEN EnhancedCap ELSE PerDocumentCap)
        /\ \A j, k \in 1..Len(documentContext) :
              j < k => FirstListed(documentContext[j].id)
                          < FirstListed(documentContext[k].id)

\* ------------------------------------------------------------ claim C21
\* rows of the faults table written for request r
FaultRowsOf(r) == {i \in 1..Len(faults) : faults[i].req = r}

\* the faults table only grows at its end: no row is changed or removed
FaultsOnlyAppended ==
    /\ Len(faults') >= Len(faults)
    /\ \A i \in 1..Len(faults) : faults'[i] = faults[i]

HistoryRowsOf(r) == {i \in 1..Len(queryHistory) : queryHistory[i].req = r}

\* C22: every successful faults.analyze has appended exactly one queryHistory
\* row, with searchPerformed = false, and no step changes a row already there.
C22_OneHistoryRowPerRequest ==
    /\ [](\A r \in Succeeded :
            /\ Cardinality(HistoryRowsOf(r)) = 1
            /\ \A i \in HistoryRowsOf(r) : ~queryHistory[i].searchPerformed)
    /\ [][/\ Len(queryHistory') >= Len(queryHistory)
          /\ \A i \in 1..Len(queryHistory) : queryHistory'[i] = queryHistory[i]]_vars

\* ------------------------------------------------------------ claim C23
\* C23: after a search scraped a source, a faults row has been created (with
\* no call to the generative service) when the extractor found a procedure in
\* the source's content, and none when it found no procedure.
C23_ProcedureYieldsWebRecord ==
    dPc = "returned" =>
        /\ Len(faults) = (IF reply.procedures # <<>> THEN 1 ELSE 0)
        /\ \A r \in Reqs : llmCalls[r] = 0

\* ------------------------------------------------------------ claim C24
\* C24: a request that reports success has every record it was to write in the
\* store: its faults row when saveToKnowledgeBase is set, and its queryHistory
\* row (a failed write ends the request with an error instead).
C24_SuccessMeansRecordsStored ==
    \A r \in Succeeded :
        /\ saveToKnowledgeBase[r] => FaultRowsOf(r) # {}
        /\ HistoryRowsOf(r) # {}

\* ------------------------------------------------------------ claim C25
\* C25: no step of any interleaving of faults.get and faults.rateFault calls
\* on a record lowers its views, helpful or notHelpful counter.
C25_CountersNeverDecrease ==
    [][/\ views' >= views
       /\ helpful' >= helpful
       /\ notHelpful' >= notHelpful]_vars

\* ------------------------------------------------------------ claim C26
\* the sources the run has finished with
Attempted == {sources[k] : k \in 1..Min(idx - 1, Len(sources))}

\* C26: a searchAllSources run has set lastScraped on every active source it
\* attempted, however the scrape of the source ended; it changes no isActive,
\* and an inactive source is neither fetched, listed as searched nor modified.
C26_OnlyLastScrapedOfAttempted ==
    /\ [](/\ \A i \in Attempted : lastScraped[i] = "now"
          /\ sPc = "returned" => Attempted = ActiveSources
          /\ \A i \in SourceIds \ ActiveSources :
                /\ lastScraped[i] = "null"
                /\ outcome[i] = "none"
                /\ \A k \in 1..Len(sourcesSearched) : sourcesSearched[k] # i)
    /\ [][isActive' = isActive]_vars

\* ------------------------------------------------------------ claim C27
\* a notification that is read and was created more than 30 days ago
ReadAndOld(n) == n.isRead /\ n.age > RetentionDays

\* C27: cleanupOldNotifications removes exactly the notifications that are
\* read and older than 30 days: every removed row is one, no row left is one,
\* and the count returned is the number removed.
C27_CleanupRemovesReadAndOld ==
    nPc = "cleaned" =>
        /\ \A i \in 1..Len(removed) : ReadAndOld(removed[i])
        /\ \A i \in 1..Len(notifications) : ~ReadAndOld(notifications[i])
        /\ affectedRows = Len(removed)

\* ------------------------------------------------------------ claim C28
\* no faults.analyze request is between its quota read and its end
Quiet == \A r \in Reqs : pc[r] \in {"start", "done", "failed"}

\* C28: once a quota grant and the requests of the user have finished, the
\* balance is at least the granted quota less one for each request that
\* succeeded: no settle write brings back a balance read before the grant.
C28_GrantNotLost ==
    (granted > 0 /\ Quiet) => queriesRemaining >= granted - Cardinality(Succeeded)

\* ------------------------------------------------------------ claim C29
\* C29: a faults.analyze request that ended with an error has left no faults
\* row and no queryHistory row of its own in the store.
C29_FailedRequestLeavesNoRows ==
    \A r \in Reqs :
        pc[r] = "failed" => (FaultRowsOf(r) = {} /\ HistoryRowsOf(r) = {})

\* ------------------------------------------------------------ claim C30
\* C30: whenever subscriptions.getStatus or subscriptions.hasQueriesRemaining
\* replies, the queriesRemaining it reports is the stored balance the quota
\* gate of faults.analyze reads, and a positive reported count means the gate
\* admits the user.
C30_ReportedBalanceIsGateBalance ==
    [][status' # status =>
          /\ status'.queriesRemaining = SelectUser.queriesRemaining
          /\ status'.queriesRemaining > 0 => Admits(SelectUser)]_vars

====
